---- MODULE Spec2Model ----
(***************************************************************************)
(* Verification model of the globe geometry-to-mesh pipeline.              *)
(*                                                                         *)
(*   scripts/build_globe.py         ring extraction, classify_rings,       *)
(*                                  build_country_mesh                     *)
(*   scripts/build_globe_meshes.py  hole policy, validity/simplify stage,  *)
(*                                  run_earcut_with_fallback,              *)
(*                                  triangulate_geometry, build_mesh_data  *)
(*                                                                         *)
(* One run executes one of the two scripts (variable prog).                *)
(***************************************************************************)
EXTENDS Integers, Sequences, FiniteSets, TLC

VARIABLES
    prog,       \* which script runs: "globe" (build_globe.py) or "meshes"
    pc,         \* position of the running script
    parts,      \* build_country_mesh: the shape parts (raw point lists)
    rings,      \* build_country_mesh: List[Ring]
    ridx,       \* build_country_mesh: position of `for ring in rings`
    verts,      \* build_country_mesh: verts
    faces,      \* build_country_mesh: faces
    created,    \* build_country_mesh: the GEO-<iso> object was created
    columns,            \* the attribute columns (fields) of the shapefile read
    gdf,                \* build_mesh_data: the ISO codes of the rows, in order
    iso_filter_set,     \* build_mesh_data: the codes to process
    lakes_index,        \* build_mesh_data: a lakes index was loaded (else None)
    simplify_tolerance, \* build_mesh_data: in hundredths of a degree
    debug_topology,     \* build_mesh_data: diagnostics are collected and written
    row,                \* build_mesh_data: position of `for _, row in gdf.iterrows()`
    geometry,           \* build_mesh_data: row.geometry of the current row
    cleaned_geom,       \* build_mesh_data: geometry returned by prepare_country_geometry
    diag,               \* build_mesh_data: its diagnostics record
    paths,              \* triangulate_geometry: paths
    pidx,               \* triangulate_geometry: position of `for path in paths`
    country_verts,      \* triangulate_geometry: country_verts
    country_faces,      \* triangulate_geometry: country_faces
    vert_offset,        \* triangulate_geometry: vert_offset
    call,               \* the last call of run_earcut_with_fallback
    tri,                \* build_mesh_data: what triangulate_geometry returned
    result,             \* build_mesh_data: result
    written,            \* build_mesh_data: the output file was written
    diagnostics,        \* build_mesh_data: diagnostics, each record by its 'iso'
    diag_written        \* build_mesh_data: the diagnostics file was written

gvars == <<parts, rings, ridx, verts, faces, created>>
runvars == <<columns, gdf, iso_filter_set, lakes_index, simplify_tolerance,
             debug_topology>>
mvars == <<row, geometry, cleaned_geom, diag, paths, pidx, country_verts,
           country_faces, vert_offset, call, tri, result, written, diagnostics,
           diag_written>>
vars == <<prog, pc, gvars, runvars, mvars>>

----------------------------------------------------------------------------
(* Bounds *)

MaxParts == 3       \* shape parts handed to build_country_mesh
MaxRows == 2        \* countries one run of build_mesh_data processes

----------------------------------------------------------------------------
(* Generic helpers *)

Range(s) == {s[i] : i \in 1..Len(s)}

SetMin(S) == CHOOSE m \in S : \A x \in S : m <= x

SetMax(S) == CHOOSE m \in S : \A x \in S : m >= x

Abs(n) == IF n < 0 THEN -n ELSE n

\* all sequences of pairwise distinct elements of S with 1..n elements
RECURSIVE DistinctSeqs(_, _)
DistinctSeqs(S, n) ==
    IF n = 0 THEN {<<>>}
    ELSE LET shorter == DistinctSeqs(S, n - 1)
         IN shorter \cup {Append(s, x) : s \in {t \in shorter : Len(t) = n - 1},
                                         x \in S}

NoDupSeqs(S, n) ==
    {s \in DistinctSeqs(S, n) :
        Len(s) >= 1 /\ \A i, j \in 1..Len(s) : i # j => s[i] # s[j]}

----------------------------------------------------------------------------
(* build_globe.py: Ring model *)

NoParent == 0       \* Ring.parent = None
NoDepth == -1       \* Ring.depth = None

\* Closed point list of the axis-aligned rectangle [x1,x2] x [y1,y2] the way
\* a shapefile part stores it (first point repeated at the end).
ClosedRect(x1, y1, x2, y2) ==
    << <<x1, y1>>, <<x2, y1>>, <<x2, y2>>, <<x1, y2>>, <<x1, y1>> >>

OpenRect(x1, y1, x2, y2) ==
    << <<x1, y1>>, <<x2, y1>>, <<x2, y2>>, <<x1, y2>> >>

\* Shape parts a country can consist of.  Coordinates are degrees, multiples
\* of 90, so that the shoelace sum halves exactly and the projection's sines
\* and cosines are those of the quadrant angles.
\*   PartA contains PartB contains PartC (body, lake, island in the lake);
\*   PartD is a disjoint island with the same area as PartC;
\*   PartE is a second lake of the body, outside PartB;
\*   PartLine and PartDot are degenerate parts with fewer than 3 points;
\*   PartFlat, away from the others, has 3 points after its closing point
\*   is removed, two of them equal.
PartA == ClosedRect(-360, -360, 360, 360)
PartB == OpenRect(-270, -270, 90, 270)
PartC == ClosedRect(-180, -180, 0, 180)
PartD == ClosedRect(450, -180, 630, 180)
PartE == ClosedRect(180, -270, 270, 270)
PartLine == << <<0, 0>>, <<90, 90>>, <<0, 0>> >>
PartDot == << <<0, 0>>, <<90, 0>> >>
PartFlat == << <<720, 0>>, <<810, 0>>, <<810, 0>>, <<720, 0>> >>
\* PartTwice, away from the others, repeats its closing point.
PartTwice == Append(ClosedRect(900, -90, 1080, 90), <<900, -90>>)

PartCatalogue ==
    {PartA, PartB, PartC, PartD, PartE, PartLine, PartDot, PartFlat, PartTwice}

RECURSIVE ShoelaceSum(_, _)
ShoelaceSum(coords, i) ==
    IF i > Len(coords) THEN 0
    ELSE LET p == coords[i]
             q == coords[(i % Len(coords)) + 1]
         IN (p[1] * q[2] - q[1] * p[2]) + ShoelaceSum(coords, i + 1)

\* area / 2.0; exact because the catalogue's coordinates are even
signed_area(coords) ==
    LET s == ShoelaceSum(coords, 1)
    IN IF s >= 0 THEN s \div 2 ELSE -((-s) \div 2)

BBox(coords) ==
    << SetMin({coords[i][1] : i \in 1..Len(coords)}),
       SetMin({coords[i][2] : i \in 1..Len(coords)}),
       SetMax({coords[i][1] : i \in 1..Len(coords)}),
       SetMax({coords[i][2] : i \in 1..Len(coords)}) >>

NewRing(coords) ==
    [coords |-> coords, area |-> Abs(signed_area(coords)), bbox |-> BBox(coords),
     parent |-> NoParent, children |-> <<>>, depth |-> NoDepth]

\* One edge test of the ray cast.  The edge (ri, rj) straddles the ray's
\* height, so yj - yi is a non-zero integer and the 1e-12 term of the source
\* only keeps the division defined; the comparison
\*   x < (xj - xi) * (y - yi) / (yj - yi) + xi
\* is carried out in integers by multiplying through with yj - yi.
EdgeIntersects(point, ri, rj) ==
    LET x == point[1]
        y == point[2]
        xi == ri[1]
        yi == ri[2]
        xj == rj[1]
        yj == rj[2]
        dy == yj - yi
        n == (xj - xi) * (y - yi)
    IN /\ (yi > y) # (yj > y)
       /\ IF dy > 0 THEN (x - xi) * dy < n ELSE (x - xi) * dy > n

point_in_polygon(point, ring) ==
    LET prev(i) == IF i = 1 THEN Len(ring) ELSE i - 1
        hits == {i \in 1..Len(ring) : EdgeIntersects(point, ring[i], ring[prev(i)])}
    IN Cardinality(hits) % 2 = 1

----------------------------------------------------------------------------
(* build_globe.py: ring extraction (build_country_mesh, first loop) *)

\* coords of one part: the duplicated closing point is removed
PartCoords(part) ==
    IF Len(part) >= 3 /\ part[1] = part[Len(part)]
    THEN SubSeq(part, 1, Len(part) - 1)
    ELSE part

RECURSIVE ExtractRings(_, _)
ExtractRings(ps, i) ==
    IF i > Len(ps) THEN <<>>
    ELSE LET coords == PartCoords(ps[i])
             rest == ExtractRings(ps, i + 1)
         IN IF Len(coords) < 3 THEN rest ELSE <<NewRing(coords)>> \o rest

----------------------------------------------------------------------------
(* build_globe.py: classify_rings *)

\* rings.sort(key=area, reverse=True): stable, descending
RECURSIVE InsertByArea(_, _)
InsertByArea(sorted, r) ==
    IF sorted = <<>> THEN <<r>>
    ELSE IF Head(sorted).area >= r.area
         THEN <<Head(sorted)>> \o InsertByArea(Tail(sorted), r)
         ELSE <<r>> \o sorted

RECURSIVE SortByAreaDesc(_, _)
SortByAreaDesc(rs, n) ==
    IF n = 0 THEN <<>> ELSE InsertByArea(SortByAreaDesc(rs, n - 1), rs[n])

\* the two tests a candidate must pass to become the parent of ring
BBoxRejects(candidate, ring) ==
    \/ ring.bbox[1] < candidate.bbox[1]
    \/ ring.bbox[2] < candidate.bbox[2]
    \/ ring.bbox[3] > candidate.bbox[3]
    \/ ring.bbox[4] > candidate.bbox[4]

Qualifies(candidate, ring) ==
    /\ ~BBoxRejects(candidate, ring)
    /\ point_in_polygon(ring.coords[1], candidate.coords)

\* for candidate in rings[:idx]: the first candidate that qualifies, with break
PickFirst(S) == IF S = {} THEN NoParent ELSE SetMin(S)

PickParent(rs, idx) ==
    PickFirst({c \in 1..(idx - 1) : Qualifies(rs[c], rs[idx])})

\* the parent loop without its break: every candidate that qualifies takes
\* the ring as a child, and the last of them stays as its parent
RECURSIVE LinkToAll(_, _, _)
LinkToAll(rs, idx, c) ==
    IF c >= idx THEN rs
    ELSE IF Qualifies(rs[c], rs[idx])
         THEN LinkToAll([rs EXCEPT ![idx].parent = c,
                                   ![c].children = Append(@, idx)], idx, c + 1)
         ELSE LinkToAll(rs, idx, c + 1)

RECURSIVE LinkRingsNoBreak(_, _)
LinkRingsNoBreak(rs, idx) ==
    IF idx > Len(rs) THEN rs
    ELSE LinkRingsNoBreak(LinkToAll(rs, idx, 1), idx + 1)

\* the parent loop, one ring after the other
RECURSIVE LinkRings(_, _)
LinkRings(rs, idx) ==
    IF idx > Len(rs) THEN rs
    ELSE LET p == PickParent(rs, idx)
             linked == IF p = NoParent THEN rs
                       ELSE [rs EXCEPT ![idx].parent = p,
                                       ![p].children = Append(@, idx)]
         IN LinkRings(linked, idx + 1)

\* assign(node, depth): depth of node, then of its children, recursively
RECURSIVE Assign(_, _, _)
RECURSIVE AssignChildren(_, _, _, _)
\* assign with the children left at their parent's depth
AssignFlat(rs, node, depth) ==
    AssignChildren([rs EXCEPT ![node].depth = depth], rs[node].children, 1, depth)

Assign(rs, node, depth) ==
    AssignChildren([rs EXCEPT ![node].depth = depth], rs[node].children, 1, depth + 1)

AssignChildren(rs, children, k, depth) ==
    IF k > Len(children) THEN rs
    ELSE AssignChildren(Assign(rs, children[k], depth), children, k + 1, depth)

RECURSIVE AssignRoots(_, _)
AssignRoots(rs, idx) ==
    IF idx > Len(rs) THEN rs
    ELSE IF rs[idx].parent = NoParent /\ rs[idx].depth = NoDepth
         THEN AssignRoots(Assign(rs, idx, 0), idx + 1)
         ELSE AssignRoots(rs, idx + 1)

classify_rings(rs) ==
    AssignRoots(LinkRings(SortByAreaDesc(rs, Len(rs)), 1), 1)

----------------------------------------------------------------------------
(* Spherical projection *)

\* A float is kept as its value in millionths (micro) after rounding to 6
\* fractional digits, plus whether it carries a remainder below that
\* precision (tiny): math.cos(math.radians(90)) is 6.1e-17, not 0.
Num(micro, tiny) == [micro |-> micro, tiny |-> tiny]

\* math.cos / math.sin of math.radians(d), d a multiple of 90
CosDeg(d) ==
    LET q == d % 360
    IN IF q = 0 THEN Num(1, FALSE)
       ELSE IF q = 180 THEN Num(-1, FALSE)
       ELSE Num(0, TRUE)

SinDeg(d) ==
    LET q == d % 360
    IN IF d = 0 THEN Num(0, FALSE)
       ELSE IF q = 90 THEN Num(1, FALSE)
       ELSE IF q = 270 THEN Num(-1, FALSE)
       ELSE Num(0, TRUE)

\* a * b for two such factors (each is +-1, 0 or a tiny remainder)
Mul(a, b) ==
    Num(a.micro * b.micro,
        /\ a.tiny \/ b.tiny
        /\ (a.tiny \/ a.micro # 0)
        /\ (b.tiny \/ b.micro # 0))

\* radius * a, radius given in millionths
Scale(radius, a) == Num(radius * a.micro, a.tiny)

\* round(x, 6)
Round6(a) == Num(a.micro, FALSE)

GLOBE_SPHERE_RADIUS == 10050000     \* sphere_radius = 10.05, in millionths

project_to_sphere(lon, lat, radius) ==
    << Scale(radius, Mul(CosDeg(lat), CosDeg(lon))),
       Scale(radius, Mul(CosDeg(lat), SinDeg(lon))),
       Scale(radius, SinDeg(lat)) >>

----------------------------------------------------------------------------
(* The triangulator (mapbox_earcut.triangulate_float64) *)

\* What one call can do: return triangles, return none, raise.
EarcutOutcomes == {"ok", "empty", "raise"}

\* The triangles of a successful call on a buffer of n vertices: a fan over
\* the buffer, every index local to the buffer (0-based).
EarcutTriangles(n) == [k \in 1..(n - 2) |-> <<0, k, k + 1>>]

----------------------------------------------------------------------------
(* build_globe.py: build_country_mesh *)

RECURSIVE FlatCoords(_, _)
FlatCoords(rs, k) ==
    IF k > Len(rs) THEN <<>> ELSE rs[k].coords \o FlatCoords(rs, k + 1)

\* holes = [child for child in ring.children if child.depth == ring.depth + 1]
HolesOf(rs, i) ==
    SelectSeq(rs[i].children,
              LAMBDA c : rs[c].depth # NoDepth /\ rs[c].depth = rs[i].depth + 1)

\* if ring.depth is None or ring.depth % 2 != 0: continue
IsExterior(ring) == ring.depth # NoDepth /\ ring.depth % 2 = 0

\* faces.append((start_index + a, start_index + b, start_index + c))
ShiftFace(face, start_index) ==
    <<face[1] + start_index, face[2] + start_index, face[3] + start_index>>

ShiftFaces(fs, start_index) == [k \in 1..Len(fs) |-> ShiftFace(fs[k], start_index)]

ProjectAll(coords, radius) ==
    [k \in 1..Len(coords) |-> project_to_sphere(coords[k][1], coords[k][2], radius)]

\* The column sets a shapefile of the model can have: the usual one, one
\* with the fallback ISO column, one without any ISO column, one without a
\* name column.
StandardColumns == {"ISO_A3", "ADMIN"}

ColumnSets == {StandardColumns, {"ADM0_A3", "NAME"}, {"ADMIN", "NAME"}, {"ISO_A3"}}

NoColumn == ""

\* build_globe, lines 330-340: field_names.index raises ValueError for a
\* field that is not there
GlobeIsoField(cols) ==
    IF "ISO_A3" \in cols THEN "ISO_A3"
    ELSE IF "ADM0_A3" \in cols THEN "ADM0_A3"
    ELSE NoColumn

GlobeNameField(cols) ==
    IF "NAME" \in cols THEN "NAME"
    ELSE IF "ADMIN" \in cols THEN "ADMIN"
    ELSE NoColumn

(* build_globe, lines 326-340: the fields are looked up before any country
   is built. *)
GlobeLoad ==
    /\ prog = "globe" /\ pc = "g_load"
    /\ pc' = IF GlobeIsoField(columns) = NoColumn \/ GlobeNameField(columns) = NoColumn
             THEN "aborted_load"
             ELSE "g_extract"
    /\ UNCHANGED <<prog, gvars, runvars, mvars>>

(* Lines 221-240: the parts become rings; no ring, no mesh. *)
GlobeExtract ==
    /\ prog = "globe" /\ pc = "g_extract"
    /\ rings' = ExtractRings(parts, 1)
    /\ pc' = IF rings' = <<>> THEN "done" ELSE "g_classify"
    /\ UNCHANGED <<prog, parts, ridx, verts, faces, created, runvars, mvars>>

(* Line 242: classify_rings(rings). *)
GlobeClassify ==
    /\ prog = "globe" /\ pc = "g_classify"
    /\ rings' = classify_rings(rings)
    /\ ridx' = 1
    /\ pc' = "g_mesh"
    /\ UNCHANGED <<prog, parts, verts, faces, created, runvars, mvars>>

(* Lines 248-282: one iteration of `for ring in rings`. *)
GlobeMeshRing ==
    /\ prog = "globe" /\ pc = "g_mesh" /\ ridx <= Len(rings)
    /\ LET ring == rings[ridx]
           holes == HolesOf(rings, ridx)
           all_rings == <<ring>> \o [k \in 1..Len(holes) |-> rings[holes[k]]]
           flat_coords == FlatCoords(all_rings, 1)
       IN IF ~IsExterior(ring) \/ Len(flat_coords) < 3
          THEN UNCHANGED <<verts, faces>>
          ELSE \E outcome \in EarcutOutcomes :
                  IF outcome # "ok"
                  THEN UNCHANGED <<verts, faces>>
                  ELSE /\ verts' = verts \o ProjectAll(flat_coords, GLOBE_SPHERE_RADIUS)
                       /\ faces' = faces \o ShiftFaces(EarcutTriangles(Len(flat_coords)),
                                                       Len(verts))
    /\ ridx' = ridx + 1
    /\ UNCHANGED <<prog, pc, parts, rings, created, runvars, mvars>>

(* Lines 284-323: no face, no object; otherwise the mesh object is made. *)
GlobeFinish ==
    /\ prog = "globe" /\ pc = "g_mesh" /\ ridx > Len(rings)
    /\ created' = (faces # <<>>)
    /\ pc' = "done"
    /\ UNCHANGED <<prog, parts, rings, ridx, verts, faces, runvars, mvars>>

----------------------------------------------------------------------------
(* build_globe_meshes.py: constants and the geometry model *)

COUNTRY_RADIUS == 10050000          \* 10.05, in millionths
MIN_RING_LEN == 3
HOLE_MIN_AREA_KM2 == 10             \* 1.0 km2, in tenths of a km2
HOLE_WATER_OVERLAP_THRESHOLD == 50  \* 0.5, in percent
DEFAULT_SIMPLIFY_TOLERANCE == 2     \* 0.02 degrees, in hundredths

KNOWN_ENCLAVES == { <<"LSO", "ZAF">>, <<"SMR", "ITA">>, <<"VAT", "ITA">> }

\* the ISO codes of the rows a shapefile of the model can hold
ISO3 == {"ZAF", "LSO", "ITA"}

\* A geometry is its type, its polygons (exterior and interiors, each the
\* closed coordinate list shapely keeps) and what GEOS answers for it:
\*   valid   is_valid
\*   repair  what make_valid returns for it when it is not valid:
\*           "fixed" the same rings, valid; "empty" an empty geometry;
\*           "collection" a GeometryCollection holding the polygons
\*   simp    what simplify(tolerance, preserve_topology=True) returns:
\*           "same" the geometry, "coarser" the geometry with a vertex of
\*           each four-cornered exterior removed, "empty" an empty geometry
Geom(type, polys, valid, repair, simp) ==
    [type |-> type, polys |-> polys, valid |-> valid, repair |-> repair, simp |-> simp]

Poly(exterior, interiors) == [exterior |-> exterior, interiors |-> interiors]

EmptyGeom(type) == Geom(type, <<>>, TRUE, "fixed", "same")

\* Polygon(): a polygon without a ring, as a MultiPolygon can hold it
EmptyPoly == Poly(<<>>, <<>>)

\* poly.is_empty
poly_is_empty(poly) == poly.exterior = <<>>

\* geom.is_empty: no polygon, or none with a ring
is_empty(geom) == \A k \in 1..Len(geom.polys) : poly_is_empty(geom.polys[k])

\* [poly for poly in geom.geoms if not poly.is_empty]
NonEmptyPolys(geom) == SelectSeq(geom.polys, LAMBDA poly : ~poly_is_empty(poly))

\* Rings of the catalogue.  The coordinates identify a ring and feed the
\* projection; what shapely, pyproj and earcut compute from them is fixed by
\* the tables below.
ExtSquare == ClosedRect(-180, -90, 180, 90)
ExtVoid == << <<-180, -90>>, <<0, -90>>, <<-180, 90>>, <<-180, -90>> >>
ExtBad == ClosedRect(-180, -90, 0, 90)
HoleEnclave == ClosedRect(0, 0, 90, 90)
HoleLake == ClosedRect(-90, -90, 0, 0)
HoleBad == ClosedRect(-90, 0, 0, 90)
\* a hole a lake covers in part, and a hole without area (its points in line)
HoleDry == ClosedRect(0, -90, 90, 0)
HoleSliver == << <<0, 0>>, <<90, 0>>, <<180, 0>>, <<0, 0>> >>
\* an exterior whose coordinate list repeats the closing point
ExtTwice == Append(ClosedRect(-90, -90, 90, 90), <<-90, -90>>)

\* hole.contains(centroid_lookup[iso]): the holes in which the representative
\* point of country iso lies
HoleContains(hole, iso) == iso = "LSO" /\ hole \in {HoleEnclave, HoleBad}

\* calculate_area_km2(hole) of pyproj's equal-area projection, in tenths
AreaKm2(hole) ==
    IF hole = HoleEnclave THEN 5
    ELSE IF hole = HoleSliver THEN 0
    ELSE 500

\* the areas lake.intersection(hole).area of the candidate lakes that
\* intersect the hole, in the order the spatial index yields them
LakeOverlaps(hole) ==
    IF hole = HoleEnclave THEN <<3000, 2000, 1000>>
    ELSE IF hole = HoleLake THEN <<3000, 1050>>
    ELSE IF hole = HoleDry THEN <<1000, 2000>>
    ELSE <<>>

\* planar area of a ring (shapely's .area of the polygon over it)
RingArea(ring) == Abs(signed_area(ring))

\* earcut(verts, rings) on the loops handed to it: it raises when ExtBad or
\* HoleBad is among them and finds no triangle in ExtVoid.  Loops are told
\* apart by their points, whatever their orientation and starting point.
RaisesOn(loop) == Range(loop) \in {Range(ExtBad), Range(HoleBad)}

EarcutOutcome(loops) ==
    IF \E k \in 1..Len(loops) : RaisesOn(loops[k]) THEN "raise"
    ELSE IF Range(loops[1]) = Range(ExtVoid) THEN "empty"
    ELSE "ok"

----------------------------------------------------------------------------
(* build_globe_meshes.py: pure helpers *)

lonlat_to_xyz(lon, lat) ==
    << Round6(Scale(COUNTRY_RADIUS, Mul(CosDeg(lat), CosDeg(lon)))),
       Round6(Scale(COUNTRY_RADIUS, Mul(CosDeg(lat), SinDeg(lon)))),
       Round6(Scale(COUNTRY_RADIUS, SinDeg(lat))) >>

normalize_ring(coords) ==
    IF coords = <<>> THEN <<>>
    ELSE IF coords[1] = coords[Len(coords)] THEN SubSeq(coords, 1, Len(coords) - 1)
    ELSE coords

\* Polygon(...) closes a ring given without its closing point
CloseRing(ring) ==
    IF ring = <<>> \/ ring[1] = ring[Len(ring)] THEN ring ELSE Append(ring, ring[1])

\* What the lakes path of a run leads to: no path given, a path without a
\* file, a file without rows, a file with lakes.
LakesSources == {"no_path", "missing", "empty", "lakes"}

\* load_lakes_index(lakes_path): TRUE for a LakesIndex, FALSE for None
load_lakes_index(lakes_path) ==
    IF lakes_path = "no_path" THEN FALSE
    ELSE IF lakes_path = "missing" THEN FALSE
    ELSE IF lakes_path = "empty" THEN FALSE
    ELSE TRUE

\* build_enclave_host_map(): host -> its enclaves; .get(host, [])
EnclavesOf(host_iso) == {e[1] : e \in {k \in KNOWN_ENCLAVES : k[2] = host_iso}}

RECURSIVE SumSeq(_, _)
SumSeq(s, k) == IF k > Len(s) THEN 0 ELSE s[k] + SumSeq(s, k + 1)

\* the loop returning at the first candidate that overlaps at all
RECURSIVE OverlapLoopAnyOverlap(_, _, _, _)
OverlapLoopAnyOverlap(overlaps, k, overlap_area, hole_area) ==
    IF k > Len(overlaps)
    THEN IF hole_area = 0 THEN FALSE
         ELSE overlap_area * 100 >= hole_area * HOLE_WATER_OVERLAP_THRESHOLD
    ELSE LET sum == overlap_area + overlaps[k]
         IN IF sum > 0 THEN TRUE
            ELSE OverlapLoopAnyOverlap(overlaps, k + 1, sum, hole_area)

\* the loop of hole_overlaps_water over the candidates, with its early return
RECURSIVE OverlapLoop(_, _, _, _)
OverlapLoop(overlaps, k, overlap_area, hole_area) ==
    IF k > Len(overlaps)
    THEN IF hole_area = 0 THEN FALSE
         ELSE overlap_area * 100 >= hole_area * HOLE_WATER_OVERLAP_THRESHOLD
    ELSE LET sum == overlap_area + overlaps[k]
         IN IF sum > 0 /\ sum * 100 >= hole_area * HOLE_WATER_OVERLAP_THRESHOLD
            THEN TRUE
            ELSE OverlapLoop(overlaps, k + 1, sum, hole_area)

\* the overlap computed whether or not a lakes index is there
hole_overlaps_water_NoGuard(hole, lakes) ==
    IF hole = <<>> THEN FALSE
    ELSE OverlapLoop(LakeOverlaps(hole), 1, 0, RingArea(hole))

hole_overlaps_water(hole, lakes) ==
    IF ~lakes \/ hole = <<>> THEN FALSE
    ELSE OverlapLoop(LakeOverlaps(hole), 1, 0, RingArea(hole))

\* the policy with the area floor tested before the enclave override
should_preserve_hole_AreaFirst(hole, host_iso, lookup, lakes) ==
    IF AreaKm2(hole) < HOLE_MIN_AREA_KM2 THEN FALSE
    ELSE \E child_iso \in EnclavesOf(host_iso) :
             child_iso \in lookup /\ HoleContains(hole, child_iso)

\* the policy with the water test deciding for holes that are not enclaves
should_preserve_hole_KeepDry(hole, host_iso, lookup, lakes) ==
    IF \E child_iso \in EnclavesOf(host_iso) :
           child_iso \in lookup /\ HoleContains(hole, child_iso)
    THEN TRUE
    ELSE IF AreaKm2(hole) < HOLE_MIN_AREA_KM2 THEN FALSE
    ELSE ~hole_overlaps_water(hole, lakes)

\* hole: the ring of the hole polygon; lookup: the keys of centroid_lookup;
\* lakes: whether a lakes index was loaded
should_preserve_hole(hole, host_iso, lookup, lakes) ==
    IF \E child_iso \in EnclavesOf(host_iso) :
           child_iso \in lookup /\ HoleContains(hole, child_iso)
    THEN TRUE
    ELSE IF AreaKm2(hole) < HOLE_MIN_AREA_KM2 THEN FALSE
    ELSE IF hole_overlaps_water(hole, lakes) THEN FALSE
    ELSE FALSE

\* the loop of filter_polygon_holes over poly.interiors
KeepHole(interior, host_iso, lookup, lakes) ==
    /\ Len(normalize_ring(interior)) >= MIN_RING_LEN
    /\ should_preserve_hole(CloseRing(normalize_ring(interior)), host_iso, lookup, lakes)

\* the filter handing every polygon back with its holes
filter_polygon_holes_KeepAll(poly, host_iso, lookup, lakes) == poly

filter_polygon_holes(poly, host_iso, lookup, lakes) ==
    IF poly.interiors = <<>> THEN poly
    ELSE LET kept == SelectSeq(poly.interiors,
                               LAMBDA h : KeepHole(h, host_iso, lookup, lakes))
         IN Poly(poly.exterior,
                 [k \in 1..Len(kept) |-> CloseRing(normalize_ring(kept[k]))])

\* a MultiPolygon taken for its first polygon
filter_country_holes_FirstOnly(geom, iso, lookup, lakes) ==
    IF is_empty(geom) THEN geom
    ELSE IF geom.type \in {"Polygon", "MultiPolygon"}
         THEN [geom EXCEPT !.polys =
                  <<filter_polygon_holes(NonEmptyPolys(geom)[1], iso, lookup, lakes)>>]
    ELSE geom

filter_country_holes(geom, iso, lookup, lakes) ==
    IF is_empty(geom) THEN geom
    ELSE IF geom.type = "Polygon"
         THEN [geom EXCEPT !.polys = <<filter_polygon_holes(geom.polys[1], iso, lookup, lakes)>>]
    ELSE IF geom.type = "MultiPolygon"
         THEN [geom EXCEPT !.polys =
                  [k \in 1..Len(NonEmptyPolys(geom)) |->
                      filter_polygon_holes(NonEmptyPolys(geom)[k], iso, lookup, lakes)]]
    ELSE geom

count_interior_rings(geom) ==
    IF is_empty(geom) THEN 0
    ELSE IF geom.type \in {"Polygon", "MultiPolygon"}
         THEN SumSeq([k \in 1..Len(geom.polys) |-> Len(geom.polys[k].interiors)], 1)
    ELSE 0

count_islands(geom) ==
    IF is_empty(geom) THEN 0
    ELSE IF geom.type = "Polygon" THEN 1
    ELSE IF geom.type = "MultiPolygon" THEN Len(geom.polys)
    ELSE 0

\* geom.area
GeomArea(geom) ==
    SumSeq([k \in 1..Len(geom.polys) |->
               RingArea(geom.polys[k].exterior)
               - SumSeq([j \in 1..Len(geom.polys[k].interiors) |->
                            RingArea(geom.polys[k].interiors[j])], 1)], 1)


----------------------------------------------------------------------------
(* build_globe_meshes.py: validity and simplification *)

\* shapely's make_valid
shapely_make_valid(geom) ==
    IF geom.valid THEN geom
    ELSE IF geom.repair = "fixed" THEN [geom EXCEPT !.valid = TRUE]
    ELSE IF geom.repair = "collection"
         THEN [geom EXCEPT !.valid = TRUE, !.type = "GeometryCollection"]
    ELSE EmptyGeom("GeometryCollection")

make_valid_geometry(geom) ==
    IF is_empty(geom) THEN geom
    ELSE LET cleaned == shapely_make_valid(geom)
         IN IF ~is_empty(cleaned) THEN cleaned ELSE geom

\* a four-cornered closed ring without its last corner
CoarserRing(ring) ==
    IF Len(ring) = 5 THEN SubSeq(ring, 1, 3) \o <<ring[1]>> ELSE ring

\* shapely's geom.simplify(tolerance, preserve_topology=True)
shapely_simplify(geom) ==
    IF geom.simp = "same" THEN geom
    ELSE IF geom.simp = "coarser"
         THEN [geom EXCEPT !.simp = "same",
                           !.polys = [k \in 1..Len(geom.polys) |->
                                         Poly(CoarserRing(geom.polys[k].exterior),
                                              geom.polys[k].interiors)]]
    ELSE EmptyGeom(geom.type)

\* simplification with the empty result taken like any other
SimplifyStepNoFallback(working, tolerance) ==
    IF tolerance > 0 THEN shapely_simplify(working) ELSE working

\* lines 289-292: simplification with the empty result discarded
SimplifyStep(working, tolerance) ==
    IF tolerance > 0
    THEN LET simplified == shapely_simplify(working)
         IN IF ~is_empty(simplified) THEN simplified ELSE working
    ELSE working

\* the geometry prepare_country_geometry returns
PreparedGeometry(iso, geom, lookup, tolerance, lakes) ==
    LET repaired == make_valid_geometry(geom)
        filtered == make_valid_geometry(filter_country_holes(repaired, iso, lookup, lakes))
    IN make_valid_geometry(SimplifyStep(filtered, tolerance))

\* the diagnostics record prepare_country_geometry returns
PreparedDiag(iso, geom, working) ==
    LET repaired == make_valid_geometry(geom)
        orig_area == GeomArea(repaired)
    IN [iso |-> iso,
        expected_enclaves |-> Cardinality(EnclavesOf(iso)),
        initial_holes |-> count_interior_rings(repaired),
        final_holes |-> count_interior_rings(working),
        initial_area |-> orig_area,
        final_area |-> GeomArea(working),
        area_delta_pct |-> IF orig_area # 0
                           THEN ((orig_area - GeomArea(working)) * 100) \div orig_area
                           ELSE 0,
        island_count |-> count_islands(working)]

----------------------------------------------------------------------------
(* build_globe_meshes.py: triangulation *)

Reverse(s) == [k \in 1..Len(s) |-> s[Len(s) + 1 - k]]

\* shapely's orient(poly, sign=1.0): exterior counter-clockwise, holes clockwise
Orient(poly) ==
    Poly(IF signed_area(poly.exterior) >= 0 THEN poly.exterior ELSE Reverse(poly.exterior),
         [k \in 1..Len(poly.interiors) |->
             IF signed_area(poly.interiors[k]) <= 0 THEN poly.interiors[k]
             ELSE Reverse(poly.interiors[k])])

\* EarcutPath of one polygon; <<>> when the exterior is too short
PathsOfPolygon(poly) ==
    LET oriented == Orient(poly)
        exterior == normalize_ring(oriented.exterior)
        rs == [k \in 1..Len(oriented.interiors) |-> normalize_ring(oriented.interiors[k])]
    IN IF Len(exterior) < MIN_RING_LEN THEN <<>>
       ELSE << [exterior |-> exterior,
                holes |-> SelectSeq(rs, LAMBDA r : Len(r) >= MIN_RING_LEN)] >>

RECURSIVE PathsOfPolygons(_, _)
PathsOfPolygons(polys, k) ==
    IF k > Len(polys) THEN <<>>
    ELSE PathsOfPolygon(polys[k]) \o PathsOfPolygons(polys, k + 1)

\* the paths taken from the polygons of a geometry of any type
polygon_to_earcut_paths_AnyType(geom) ==
    IF is_empty(geom) THEN <<>> ELSE PathsOfPolygons(NonEmptyPolys(geom), 1)

polygon_to_earcut_paths(geom) ==
    IF is_empty(geom) THEN <<>>
    ELSE IF geom.type = "Polygon" THEN PathsOfPolygons(<<geom.polys[1]>>, 1)
    ELSE IF geom.type = "MultiPolygon" THEN PathsOfPolygons(NonEmptyPolys(geom), 1)
    ELSE <<>>

RECURSIVE Concat(_, _)
Concat(ss, k) == IF k > Len(ss) THEN <<>> ELSE ss[k] \o Concat(ss, k + 1)

\* the coords array of flatten_loops_for_earcut; its ring_indices are the
\* running lengths of the loops kept
LoopsKept(loops) == SelectSeq(loops, LAMBDA r : Len(r) >= MIN_RING_LEN)

flatten_loops_for_earcut(loops) == Concat(LoopsKept(loops), 1)

\* earcut_loop(target_loops): raised, or the vertices and faces
earcut_loop(target_loops) ==
    LET verts_arr == flatten_loops_for_earcut(target_loops)
        outcome == EarcutOutcome(LoopsKept(target_loops))
    IN IF verts_arr = <<>> THEN [raised |-> FALSE, verts |-> <<>>, faces |-> <<>>]
       ELSE IF outcome = "raise" THEN [raised |-> TRUE, verts |-> <<>>, faces |-> <<>>]
       ELSE [raised |-> FALSE,
             verts |-> [k \in 1..Len(verts_arr) |->
                           lonlat_to_xyz(verts_arr[k][1], verts_arr[k][2])],
             faces |-> IF outcome = "ok" THEN EarcutTriangles(Len(verts_arr)) ELSE <<>>]

\* What a call of run_earcut_with_fallback did: whether the first
\* earcut_loop raised, the loop lists the except branch retried with, and
\* what the call returned (or that it raised).
CallRecord(first_raised, retried, got) ==
    [first_raised |-> first_raised, retried |-> retried,
     raised |-> got.raised, verts |-> got.verts, faces |-> got.faces]

Raised == [raised |-> TRUE, verts |-> <<>>, faces |-> <<>>]

\* the except branch retrying with every loop again
EarcutFallbackAllLoops(loops) ==
    IF Len(loops) > 1 THEN CallRecord(TRUE, <<loops>>, earcut_loop(loops))
    ELSE CallRecord(TRUE, <<>>, Raised)

\* the except branch of run_earcut_with_fallback
EarcutFallback(loops) ==
    IF Len(loops) > 1 THEN CallRecord(TRUE, << <<loops[1]>> >>, earcut_loop(<<loops[1]>>))
    ELSE CallRecord(TRUE, <<>>, Raised)

run_earcut_with_fallback(loops) ==
    LET first == earcut_loop(loops)
    IN IF ~first.raised THEN CallRecord(FALSE, <<>>, first) ELSE EarcutFallback(loops)

\* faces with indices counted from 1
OffsetFaceOneBased(face, offset) ==
    <<face[1] + offset + 1, face[2] + offset + 1, face[3] + offset + 1>>

\* country_faces.append([idx + vert_offset for idx in face])
OffsetFace(face, offset) ==
    <<face[1] + offset, face[2] + offset, face[3] + offset>>

OffsetFaces(fs, offset) == [k \in 1..Len(fs) |-> OffsetFace(fs[k], offset)]

\* the offset set to the size of the last polygon
NextOffsetAssigned(offset, vs) == Len(vs)

\* vert_offset += len(verts)
NextOffset(offset, vs) == offset + Len(vs)

----------------------------------------------------------------------------
(* build_globe_meshes.py: build_mesh_data *)

None == [some |-> FALSE, verts |-> <<>>, faces |-> <<>>]

Some(v, f) == [some |-> TRUE, verts |-> v, faces |-> f]

\* triangulate_geometry without its final emptiness test
TriangulateReturnAlways(cverts, cfaces) == Some(cverts, cfaces)

\* lines 369-371 of triangulate_geometry
TriangulateReturn(cverts, cfaces) ==
    IF cverts = <<>> \/ cfaces = <<>> THEN None ELSE Some(cverts, cfaces)

\* the loop of triangulate_geometry over the paths from path k on; an
\* exception of run_earcut_with_fallback leaves the function
RECURSIVE TriangulatePaths(_, _, _, _, _)
TriangulatePaths(ps, k, cverts, cfaces, offset) ==
    IF k > Len(ps) THEN [raised |-> FALSE, tri |-> TriangulateReturn(cverts, cfaces)]
    ELSE LET got == run_earcut_with_fallback(<<ps[k].exterior>> \o ps[k].holes)
         IN IF got.raised THEN [raised |-> TRUE, tri |-> None]
            ELSE IF got.verts = <<>> \/ got.faces = <<>>
                 THEN TriangulatePaths(ps, k + 1, cverts, cfaces, offset)
            ELSE TriangulatePaths(ps, k + 1, cverts \o got.verts,
                                  cfaces \o OffsetFaces(got.faces, offset),
                                  NextOffset(offset, got.verts))

\* triangulate_geometry(geom): what it returns, or that it raised
triangulate_geometry(geom) ==
    IF is_empty(geom) \/ polygon_to_earcut_paths(geom) = <<>>
    THEN [raised |-> FALSE, tri |-> None]
    ELSE TriangulatePaths(polygon_to_earcut_paths(geom), 1, <<>>, <<>>, 0)

\* lines 428-438: `if not tri: continue`, else result[iso] = {...}
Insert(res, iso, t) ==
    IF ~t.some THEN res
    ELSE [k \in DOMAIN res \cup {iso} |->
             IF k = iso THEN [name |-> iso, verts |-> t.verts, faces |-> t.faces]
             ELSE res[k]]

NoDiag ==
    [iso |-> "", expected_enclaves |-> 0, initial_holes |-> 0, final_holes |-> 0,
     initial_area |-> 0, final_area |-> 0, area_delta_pct |-> 0, island_count |-> 0]

NoCall ==
    [loops |-> <<>>, first_raised |-> FALSE, retried |-> <<>>,
     raised |-> FALSE, verts |-> <<>>, faces |-> <<>>]

\* The geometries a row of the shapefile can hold.
Plain(type, polys) == Geom(type, polys, TRUE, "fixed", "same")

Exteriors == {ExtSquare, ExtVoid, ExtBad}

HoleLists ==
    {<<>>, <<HoleEnclave>>, <<HoleLake>>, <<HoleBad>>, <<HoleLake, HoleEnclave>>}

Polygons == {Poly(e, hs) : e \in Exteriors, hs \in HoleLists}

PlainGeoms ==
    {Plain("Polygon", <<p>>) : p \in Polygons}
    \cup {Plain("MultiPolygon", <<p, Poly(e, <<>>)>>) : p \in Polygons, e \in Exteriors}
    \cup {Plain("MultiPolygon", <<Poly(ExtSquare, <<HoleLake, HoleEnclave>>), EmptyPoly,
                                   Poly(ExtSquare, <<>>)>>)}
    \cup {Plain("Polygon", <<Poly(ExtTwice, <<>>)>>)}
    \cup {EmptyGeom("Polygon")}

\* geometries that are invalid, or that simplification changes or loses
TroubledGeoms ==
    LET bases == { Plain("Polygon", <<Poly(ExtSquare, <<HoleEnclave>>)>>),
                   Plain("MultiPolygon", <<Poly(ExtSquare, <<HoleLake, HoleEnclave>>),
                                           Poly(ExtSquare, <<>>)>>) }
    IN UNION { { [b EXCEPT !.simp = "coarser"],
                 [b EXCEPT !.simp = "empty"],
                 [b EXCEPT !.valid = FALSE, !.repair = "fixed"],
                 [b EXCEPT !.valid = FALSE, !.repair = "empty"],
                 [b EXCEPT !.valid = FALSE, !.repair = "collection"] } : b \in bases }

\* a polygon with a hole without area, which GEOS finds invalid and repairs
\* to nothing
SliverGeoms ==
    {Geom("Polygon", <<Poly(ExtSquare, <<HoleDry, HoleSliver>>)>>, FALSE, "empty", "same")}

GeomCatalogue == PlainGeoms \cup TroubledGeoms \cup SliverGeoms

\* The ISO codes of the records of the shapefile, and the order dissolve
\* puts its groups in.
ShapefileRecords == <<"ZAF", "-99", "ITA", "LSO", "ITA">>

Alphabetical == <<"-99", "ITA", "LSO", "ZAF">>

\* gdf.dissolve(by=iso_col).reset_index(): one row per code, sorted
dissolve(codes) == SelectSeq(Alphabetical, LAMBDA c : c \in Range(codes))

\* iso_col of load_shapefile: the first candidate that is a column
PickIsoColumn(preferred_iso_col, cols) ==
    IF preferred_iso_col # NoColumn /\ preferred_iso_col \in cols THEN preferred_iso_col
    ELSE IF "ISO_A3" \in cols THEN "ISO_A3"
    ELSE IF "ADM0_A3" \in cols THEN "ADM0_A3"
    ELSE NoColumn

\* the rows loaded whatever column was found
load_shapefile_Lenient(preferred_iso_col, cols) ==
    [raised |-> FALSE,
     gdf |-> dissolve(SelectSeq(ShapefileRecords, LAMBDA c : c # "-99")),
     iso_col |-> PickIsoColumn(preferred_iso_col, cols)]

\* load_shapefile(preferred_iso_col): ValueError, or the dissolved rows and
\* the column
load_shapefile(preferred_iso_col, cols) ==
    IF PickIsoColumn(preferred_iso_col, cols) = NoColumn
    THEN [raised |-> TRUE, gdf |-> <<>>, iso_col |-> NoColumn]
    ELSE [raised |-> FALSE,
          gdf |-> dissolve(SelectSeq(ShapefileRecords, LAMBDA c : c # "-99")),
          iso_col |-> PickIsoColumn(preferred_iso_col, cols)]

(* Line 383: gdf, iso_col = load_shapefile(); its ValueError is caught
   nowhere. *)
MeshLoad ==
    /\ prog = "meshes" /\ pc = "m_load"
    /\ LET loaded == load_shapefile(NoColumn, columns)
       IN /\ gdf' = loaded.gdf
          /\ pc' = IF loaded.raised THEN "aborted_load" ELSE "m_row"
    /\ UNCHANGED <<prog, gvars, columns, iso_filter_set, lakes_index, simplify_tolerance,
                   debug_topology, mvars>>

\* centroid_lookup has one entry per row of the shapefile
CentroidKeys == Range(gdf)

CurrentIso == gdf[row]

(* Lines 393-396: a row the filter leaves out. *)
MeshSkipRow ==
    /\ prog = "meshes" /\ pc = "m_row" /\ row <= Len(gdf)
    /\ CurrentIso \notin iso_filter_set
    /\ row' = row + 1
    /\ UNCHANGED <<prog, pc, gvars, runvars, geometry, cleaned_geom, diag, paths, pidx,
                   country_verts, country_faces, vert_offset, call, tri, result, written,
                   diagnostics, diag_written>>

(* Lines 385 and 397-410, and lines 348-357 of triangulate_geometry: the row's
   geometry is repaired and prepared; an empty result skips the country, as
   does a geometry without paths; with debug_topology the record of a country
   that is not empty joins the diagnostics. *)
MeshPrepare ==
    /\ prog = "meshes" /\ pc = "m_row" /\ row <= Len(gdf)
    /\ CurrentIso \in iso_filter_set
    /\ \E g \in GeomCatalogue :
          LET geom == make_valid_geometry(g)
              working == PreparedGeometry(CurrentIso, geom, CentroidKeys,
                                          simplify_tolerance, lakes_index)
              ps == polygon_to_earcut_paths(working)
          IN /\ geometry' = geom
             /\ cleaned_geom' = working
             /\ diag' = PreparedDiag(CurrentIso, geom, working)
             /\ paths' = IF is_empty(working) THEN <<>> ELSE ps
             /\ diagnostics' = IF debug_topology /\ ~is_empty(working)
                               THEN Append(diagnostics, CurrentIso)
                               ELSE diagnostics
             /\ IF is_empty(working) \/ ps = <<>>
                THEN /\ pc' = "m_row"
                     /\ row' = row + 1
                     /\ pidx' = 0
                ELSE /\ pc' = "m_tri"
                     /\ row' = row
                     /\ pidx' = 1
    /\ country_verts' = <<>>
    /\ country_faces' = <<>>
    /\ vert_offset' = 0
    /\ call' = NoCall
    /\ tri' = None
    /\ UNCHANGED <<prog, gvars, runvars, result, written, diag_written>>

(* Lines 359-367: one iteration of `for path in paths`.  An exception of
   run_earcut_with_fallback is caught nowhere and ends the run. *)
MeshTriangulatePath ==
    /\ prog = "meshes" /\ pc = "m_tri" /\ pidx <= Len(paths)
    /\ LET loops == <<paths[pidx].exterior>> \o paths[pidx].holes
           got == run_earcut_with_fallback(loops)
       IN /\ call' = [loops |-> loops, first_raised |-> got.first_raised,
                      retried |-> got.retried, raised |-> got.raised,
                      verts |-> got.verts, faces |-> got.faces]
          /\ IF got.raised
             THEN /\ pc' = "aborted"
                  /\ UNCHANGED <<pidx, country_verts, country_faces, vert_offset>>
             ELSE /\ pc' = pc
                  /\ pidx' = pidx + 1
                  /\ IF got.verts = <<>> \/ got.faces = <<>>
                     THEN UNCHANGED <<country_verts, country_faces, vert_offset>>
                     ELSE /\ country_faces' = country_faces \o OffsetFaces(got.faces, vert_offset)
                          /\ country_verts' = country_verts \o got.verts
                          /\ vert_offset' = NextOffset(vert_offset, got.verts)
    /\ UNCHANGED <<prog, gvars, runvars, row, geometry, cleaned_geom, diag, paths,
                   tri, result, written, diagnostics, diag_written>>

(* Lines 369-371 and 427-438: triangulate_geometry returns, the country is
   inserted or skipped. *)
MeshFinishCountry ==
    /\ prog = "meshes" /\ pc = "m_tri" /\ pidx > Len(paths)
    /\ tri' = TriangulateReturn(country_verts, country_faces)
    /\ result' = Insert(result, CurrentIso, tri')
    /\ row' = row + 1
    /\ pc' = "m_row"
    /\ UNCHANGED <<prog, gvars, runvars, geometry, cleaned_geom, diag, paths, pidx,
                   country_verts, country_faces, vert_offset, call, written, diagnostics,
                   diag_written>>

(* Lines 440-444: the result is written. *)
MeshWrite ==
    /\ prog = "meshes" /\ pc = "m_row" /\ row > Len(gdf)
    /\ written' = TRUE
    /\ pc' = "m_diag"
    /\ UNCHANGED <<prog, gvars, runvars, row, geometry, cleaned_geom, diag, paths, pidx,
                   country_verts, country_faces, vert_offset, call, tri, result,
                   diagnostics, diag_written>>

\* What creating the diagnostics directory and writing the file can do:
\* succeed, or raise OSError.
DiagWriteOutcomes == {"ok", "oserror"}

(* Lines 446-454: with debug_topology and a record collected the diagnostics
   file is written, then the result is returned.  Nothing catches an
   exception of mkdir, open or json.dump. *)
MeshWriteDiagnostics ==
    /\ prog = "meshes" /\ pc = "m_diag"
    /\ IF debug_topology /\ diagnostics # <<>>
       THEN \E outcome \in DiagWriteOutcomes :
               /\ diag_written' = (outcome = "ok")
               /\ pc' = IF outcome = "ok" THEN "done" ELSE "aborted_write"
       ELSE /\ diag_written' = diag_written
            /\ pc' = "done"
    /\ UNCHANGED <<prog, gvars, runvars, row, geometry, cleaned_geom, diag, paths, pidx,
                   country_verts, country_faces, vert_offset, call, tri, result, written,
                   diagnostics>>

----------------------------------------------------------------------------
(* Specification *)

GlobeIdle ==
    /\ parts = <<>>
    /\ rings = <<>>
    /\ ridx = 0
    /\ verts = <<>>
    /\ faces = <<>>
    /\ created = FALSE

MeshIdle ==
    /\ row = 1
    /\ geometry = EmptyGeom("Polygon")
    /\ cleaned_geom = EmptyGeom("Polygon")
    /\ diag = NoDiag
    /\ paths = <<>>
    /\ pidx = 0
    /\ country_verts = <<>>
    /\ country_faces = <<>>
    /\ vert_offset = 0
    /\ call = NoCall
    /\ tri = None
    /\ result = <<>>
    /\ written = FALSE
    /\ diagnostics = <<>>
    /\ diag_written = FALSE

\* build_globe.py: build_country_mesh on the parts of one country
InitGlobe ==
    /\ prog = "globe"
    /\ pc = "g_load"
    /\ columns \in ColumnSets
    /\ parts \in NoDupSeqs(PartCatalogue, MaxParts)
    /\ rings = <<>>
    /\ ridx = 0
    /\ verts = <<>>
    /\ faces = <<>>
    /\ created = FALSE
    /\ gdf = <<>>
    /\ iso_filter_set = {}
    /\ lakes_index = FALSE
    /\ simplify_tolerance = 0
    /\ debug_topology = FALSE
    /\ MeshIdle

\* The parameters of a run of build_mesh_data and the columns of its
\* shapefile: every combination of lakes index, tolerance 0 or default, and
\* debug_topology on the usual columns; a negative tolerance and the other
\* column sets with the defaults of the remaining parameters.
RunParameters ==
    {[lakes |-> l, tolerance |-> t, debug |-> d, cols |-> StandardColumns] :
         l \in {load_lakes_index(lakes_shapefile) : lakes_shapefile \in LakesSources},
         t \in {0, DEFAULT_SIMPLIFY_TOLERANCE},
         d \in BOOLEAN}
    \cup {[lakes |-> TRUE, tolerance |-> -DEFAULT_SIMPLIFY_TOLERANCE, debug |-> FALSE,
           cols |-> StandardColumns]}
    \cup {[lakes |-> TRUE, tolerance |-> DEFAULT_SIMPLIFY_TOLERANCE, debug |-> FALSE,
           cols |-> c] : c \in ColumnSets}

\* build_globe_meshes.py: build_mesh_data called
InitMeshes ==
    /\ prog = "meshes"
    /\ pc = "m_load"
    /\ gdf = <<>>
    /\ iso_filter_set \in {f \in SUBSET ISO3 : f # {} /\ Cardinality(f) <= MaxRows}
    /\ \E p \in RunParameters :
          /\ lakes_index = p.lakes
          /\ simplify_tolerance = p.tolerance
          /\ debug_topology = p.debug
          /\ columns = p.cols
    /\ GlobeIdle
    /\ MeshIdle

Init == InitGlobe \/ InitMeshes

Next ==
    \/ GlobeLoad
    \/ GlobeExtract
    \/ GlobeClassify
    \/ GlobeMeshRing
    \/ GlobeFinish
    \/ MeshLoad
    \/ MeshSkipRow
    \/ MeshPrepare
    \/ MeshTriangulatePath
    \/ MeshFinishCountry
    \/ MeshWrite
    \/ MeshWriteDiagnostics

Spec == Init /\ [][Next]_vars

----------------------------------------------------------------------------
(* Claims about classify_rings and build_country_mesh (build_globe.py) *)

\* classify_rings has returned
Classified == prog = "globe" /\ pc \in {"g_mesh", "done"} /\ rings # <<>>

\* the rings processed before ring i that pass both tests for ring i
Enclosers(i) == {c \in 1..(i - 1) : Qualifies(rings[c], rings[i])}

\* Ground truth for the catalogue, whose rings are axis-aligned rectangles
\* that do not cross: a encloses b iff a's box strictly contains b's box.
Encloses(a, b) ==
    /\ a.bbox[1] < b.bbox[1] /\ a.bbox[2] < b.bbox[2]
    /\ a.bbox[3] > b.bbox[3] /\ a.bbox[4] > b.bbox[4]

EnclosingCount(i) ==
    Cardinality({c \in 1..Len(rings) : c # i /\ Encloses(rings[c], rings[i])})

\* C1: after classify_rings every ring's parent is its nearest enclosing ring:
\* among the earlier (larger) rings whose bounding box contains its bounding
\* box and whose polygon contains its first vertex, the parent is the one of
\* smallest area; a ring with no such ring has no parent.  (For A contains B
\* contains C the parent of C is B.)
C1_ParentIsNearestEncloser ==
    Classified =>
        \A i \in 1..Len(rings) :
            IF Enclosers(i) = {}
            THEN rings[i].parent = NoParent
            ELSE /\ rings[i].parent \in Enclosers(i)
                 /\ \A c \in Enclosers(i) :
                        rings[rings[i].parent].area <= rings[c].area

\* C9: after classify_rings every ring has a depth, 0 without a parent and
\* the parent's depth plus one with a parent.
C9_DepthInvariant ==
    Classified =>
        \A i \in 1..Len(rings) :
            /\ rings[i].depth # NoDepth
            /\ rings[i].parent = NoParent => rings[i].depth = 0
            /\ rings[i].parent # NoParent =>
                   rings[i].depth = rings[rings[i].parent].depth + 1

\* C9 witness: a classified country in which one ring has a parent and
\* another has none
C9_Witness ==
    /\ Classified
    /\ \E i, j \in 1..Len(rings) :
          rings[i].parent # NoParent /\ rings[j].parent = NoParent /\ i # j

\* C10: a ring's depth is even exactly when an even number of the country's
\* other rings enclose it; build_country_mesh fills (takes as exterior)
\* exactly those rings and carves out only rings enclosed by an odd number.
C10_DepthParityIsFill ==
    Classified =>
        \A i \in 1..Len(rings) :
            /\ (rings[i].depth % 2 = 0) <=> (EnclosingCount(i) % 2 = 0)
            /\ IsExterior(rings[i]) <=> (EnclosingCount(i) % 2 = 0)
            /\ \A k \in 1..Len(HolesOf(rings, i)) :
                   EnclosingCount(HolesOf(rings, i)[k]) % 2 = 1

----------------------------------------------------------------------------
(* Claims about the hole policy and the triangulation (build_globe_meshes.py) *)

\* prepare_country_geometry has returned for country diag.iso
Prepared == prog = "meshes" /\ diag.iso # ""

\* the holes of the polygons of a geometry, as a set of rings
HolesIn(geom) ==
    UNION { Range(geom.polys[k].interiors) : k \in 1..Len(geom.polys) }

\* the geometry filter_country_holes was given, when it filters it
Filterable(geom) == ~is_empty(geom) /\ geom.type \in {"Polygon", "MultiPolygon"}

\* hole contains the representative point of an enclave registered under iso
IsEnclaveHole(hole, iso) ==
    \E child \in ISO3 \cup {"SMR", "VAT"} :
        /\ <<child, iso>> \in KNOWN_ENCLAVES
        /\ child \in CentroidKeys
        /\ HoleContains(hole, child)

\* run_earcut_with_fallback has been called
Called == prog = "meshes" /\ call.loops # <<>>

\* C2: a polygon whose triangulation raises or gives no triangle is skipped
\* alone; the country's other polygons and the other countries are still
\* processed and the run is never aborted.
C2_FailedPolygonIsSkipped ==
    (Called /\ (call.raised \/ call.verts = <<>> \/ call.faces = <<>>)) =>
        /\ pc # "aborted"
        /\ pidx > 0

\* C3: when the first triangulation of [exterior] + holes raises and there is
\* a hole, run_earcut_with_fallback retries once, with the exterior alone;
\* when the retry does not raise the call returns the retry's result, whose
\* vertices are the exterior's vertices only.
C3_FallbackIsExteriorOnly ==
    (Called /\ call.first_raised /\ Len(call.loops) > 1) =>
        /\ call.retried = << <<call.loops[1]>> >>
        /\ EarcutOutcome(<<call.loops[1]>>) # "raise" =>
              /\ ~call.raised
              /\ call.verts = [k \in 1..Len(call.loops[1]) |->
                                  lonlat_to_xyz(call.loops[1][k][1], call.loops[1][k][2])]
              /\ \A k \in 1..Len(call.faces) : \A c \in 1..3 :
                     call.faces[k][c] \in 0..(Len(call.loops[1]) - 1)

\* C3 witness: the first triangulation raised on a polygon with a hole and
\* the call returned a triangulated exterior
C3_Witness ==
    /\ Called /\ call.first_raised /\ Len(call.loops) > 1
    /\ ~call.raised /\ call.faces # <<>>

\* C4: should_preserve_hole is true exactly for the holes that contain the
\* representative point of an enclave registered under the host and present
\* in the centroid lookup; every other hole is discarded whatever its area
\* and its water overlap.
C4_PreserveIffEnclave ==
    (Prepared /\ Filterable(geometry)) =>
        \A hole \in HolesIn(geometry) :
            should_preserve_hole(hole, diag.iso, CentroidKeys, lakes_index)
                <=> IsEnclaveHole(hole, diag.iso)

\* C4 witness: a hole that is no enclave, is above the area floor and does
\* not overlap water has been through the policy
C4_Witness ==
    /\ Prepared /\ Filterable(geometry)
    /\ \E hole \in HolesIn(geometry) :
          /\ ~IsEnclaveHole(hole, diag.iso)
          /\ AreaKm2(hole) >= HOLE_MIN_AREA_KM2
          /\ ~hole_overlaps_water(hole, lakes_index)
    /\ \E hole \in HolesIn(geometry) : IsEnclaveHole(hole, diag.iso)

\* C5: a hole of a host country that contains the representative point of a
\* registered enclave is kept by filter_polygon_holes and is still a hole of
\* the geometry prepare_country_geometry returns, also when it is below the
\* area floor or overlaps water.
C5_EnclaveHoleSurvives ==
    (Prepared /\ Filterable(geometry)) =>
        \A hole \in HolesIn(geometry) :
            IsEnclaveHole(hole, diag.iso) =>
                /\ hole \in HolesIn(filter_country_holes(geometry, diag.iso,
                                                         CentroidKeys, lakes_index))
                /\ hole \in HolesIn(cleaned_geom)
                /\ diag.final_holes >= 1

\* C5 witness: an enclave hole below the area floor that overlaps water went
\* through a preparation that simplifies
C5_Witness ==
    /\ Prepared /\ Filterable(geometry) /\ simplify_tolerance > 0
    /\ geometry.simp = "coarser"
    /\ \E hole \in HolesIn(geometry) :
          /\ IsEnclaveHole(hole, diag.iso)
          /\ AreaKm2(hole) < HOLE_MIN_AREA_KM2
          /\ hole_overlaps_water(hole, lakes_index)
          /\ hole \in HolesIn(cleaned_geom)

InRange(fs, n) == \A k \in 1..Len(fs) : \A c \in 1..3 : fs[k][c] >= 0 /\ fs[k][c] < n

\* C6: every index of every face of a country's mesh is at least 0 and below
\* the length of that country's vertex list, after any number of polygons,
\* in triangulate_geometry and in build_country_mesh.
C6_TriangleLocality ==
    /\ InRange(country_faces, Len(country_verts))
    /\ InRange(tri.faces, Len(tri.verts))
    /\ \A iso \in DOMAIN result : InRange(result[iso].faces, Len(result[iso].verts))
    /\ InRange(faces, Len(verts))

\* C6 witness: a country made of two triangulated polygons is in the result
C6_Witness ==
    \E iso \in DOMAIN result :
        \E k \in 1..Len(result[iso].faces) : result[iso].faces[k][1] > 0

\* C7: triangulate_geometry returns None or two non-empty lists, and only
\* the latter puts the country into the result: a country whose polygons were
\* all skipped, or whose cleaned geometry is empty, has no key.
C7_NeverPresentButEmpty ==
    /\ tri.some => (tri.verts # <<>> /\ tri.faces # <<>>)
    /\ \A iso \in DOMAIN result :
          result[iso].verts # <<>> /\ result[iso].faces # <<>>
    /\ (Prepared /\ pc \in {"m_row", "done"}
        /\ (is_empty(cleaned_geom) \/ country_verts = <<>> \/ country_faces = <<>>))
          => diag.iso \notin DOMAIN result

\* C7 witness: a country all of whose polygons were skipped is absent while
\* another country is present
C7_Witness ==
    /\ Prepared /\ pc = "m_row"
    /\ paths # <<>> /\ country_faces = <<>>
    /\ diag.iso \notin DOMAIN result
    /\ DOMAIN result # {}

\* C8: when the repair of a non-empty geometry gives an empty result, the
\* validity stage hands that outcome to its caller: the prepared geometry is
\* empty, not the unrepaired input or another substitute.
C8_EmptyRepairIsSignalled ==
    (Prepared /\ ~is_empty(geometry) /\ is_empty(shapely_make_valid(geometry))) =>
        is_empty(cleaned_geom)

----------------------------------------------------------------------------
(* Claims about repeated classification and degenerate rings *)

\* C11: classify_rings is deterministic: the classification of a country's
\* rings is the one a run on a fresh copy of the same rings gives, and a
\* second run on the rings already classified changes no parent, lets no
\* children list grow and changes no depth.
C11_NestingIsDeterministic ==
    Classified =>
        /\ rings = classify_rings(ExtractRings(parts, 1))
        /\ LET again == classify_rings(rings)
           IN \A i \in 1..Len(rings) :
                 /\ again[i].coords = rings[i].coords
                 /\ again[i].parent = rings[i].parent
                 /\ again[i].children = rings[i].children
                 /\ again[i].depth = rings[i].depth

\* the number of distinct points of a ring
DistinctPoints(coords) == Cardinality(Range(coords))

\* the parts that have 3 distinct points or more, in their order
SoundParts(ps) == SelectSeq(ps, LAMBDA part : DistinctPoints(part) >= 3)

\* C12: a ring with fewer than 3 distinct points (its duplicated closing
\* point removed) reaches neither classify_rings nor the triangulator, and
\* the rings extracted, their order and their classification are those of
\* the country without its degenerate parts.
C12_DegenerateRingIsDropped ==
    /\ (prog = "globe" /\ pc # "g_extract") =>
          /\ \A i \in 1..Len(rings) : DistinctPoints(rings[i].coords) >= 3
          /\ pc = "g_classify" => rings = ExtractRings(SoundParts(parts), 1)
          /\ Classified => rings = classify_rings(ExtractRings(SoundParts(parts), 1))
    /\ prog = "meshes" =>
          /\ \A k \in 1..Len(paths) :
                /\ DistinctPoints(paths[k].exterior) >= 3
                /\ \A h \in 1..Len(paths[k].holes) :
                       DistinctPoints(paths[k].holes[h]) >= 3
          /\ \A k \in 1..Len(call.loops) : DistinctPoints(call.loops[k]) >= 3

----------------------------------------------------------------------------
(* Claims about prepare_country_geometry and its stages *)

\* the country is registered as the host of no enclave
NonHost(iso) == EnclavesOf(iso) = {}

\* the same geometry with the holes of every polygon removed; what GEOS
\* answers for its validity, repair and simplification is what it answers for
\* the exteriors
WithoutHoles(geom) ==
    [geom EXCEPT !.polys = [k \in 1..Len(geom.polys) |->
                               Poly(geom.polys[k].exterior, <<>>)]]

\* the prepared geometry of the current country had its row no hole
PreparedWithoutHoles ==
    PreparedGeometry(diag.iso, WithoutHoles(geometry), CentroidKeys,
                     simplify_tolerance, lakes_index)

\* C13: for a country that hosts no registered enclave the mesh is the mesh
\* of the same geometry without its holes (same vertices, same triangles),
\* and no hole loop is handed to the triangulator.
C13_HolesDiscardedEndToEnd ==
    (Prepared /\ NonHost(diag.iso)) =>
        /\ triangulate_geometry(cleaned_geom) = triangulate_geometry(PreparedWithoutHoles)
        /\ \A k \in 1..Len(paths) : paths[k].holes = <<>>
        /\ Len(call.loops) <= 1
        /\ pc \in {"m_row", "done"} => tri = triangulate_geometry(PreparedWithoutHoles).tri
        /\ pc = "aborted" => triangulate_geometry(PreparedWithoutHoles).raised

\* C13 witness: a country that hosts no enclave and whose polygon has a hole
\* has been triangulated and is in the result
C13_Witness ==
    /\ Prepared /\ NonHost(diag.iso) /\ pc = "m_row"
    /\ HolesIn(geometry) # {}
    /\ tri.some /\ diag.iso \in DOMAIN result
    /\ Len(call.loops) = 1

\* C14: for every country processed prepare_country_geometry returns a valid
\* geometry whose number of holes (final_holes) is the number of enclaves
\* registered for the country (expected_enclaves, 0 for a country that is no
\* host).
C14_FinalHolesAreEnclaves ==
    (Prepared /\ ~is_empty(geometry)) =>
        /\ cleaned_geom.valid
        /\ diag.final_holes = diag.expected_enclaves
        /\ diag.expected_enclaves = Cardinality(EnclavesOf(diag.iso))
        /\ diag.final_holes = count_interior_rings(cleaned_geom)

\* the working geometry of the current country before lines 289-292: the
\* row's geometry repaired, filtered and repaired again
Filtered ==
    make_valid_geometry(filter_country_holes(make_valid_geometry(geometry), diag.iso,
                                             CentroidKeys, lakes_index))

\* C15: with simplify_tolerance > 0 an empty result of simplify is discarded
\* and the geometry of before the simplification goes on (a non-empty result
\* replaces it); simplification never makes a non-empty geometry empty; with
\* simplify_tolerance <= 0 nothing is simplified.
C15_EmptySimplifyKeepsGeometry ==
    Prepared =>
        /\ (simplify_tolerance > 0 /\ is_empty(shapely_simplify(Filtered)))
              => cleaned_geom = make_valid_geometry(Filtered)
        /\ (simplify_tolerance > 0 /\ ~is_empty(shapely_simplify(Filtered)))
              => cleaned_geom = make_valid_geometry(shapely_simplify(Filtered))
        /\ ~is_empty(Filtered) => ~is_empty(cleaned_geom)
        /\ simplify_tolerance <= 0 => cleaned_geom = make_valid_geometry(Filtered)

\* C15 witness: simplify gave an empty result for a country that is then
\* triangulated and put into the result
C15_Witness ==
    /\ Prepared /\ simplify_tolerance > 0
    /\ ~is_empty(Filtered) /\ is_empty(shapely_simplify(Filtered))
    /\ ~is_empty(cleaned_geom)
    /\ diag.iso \in DOMAIN result

----------------------------------------------------------------------------
(* Claims about the run of build_mesh_data *)

\* C17: without a lakes index (no path, no file or no row, load_lakes_index
\* returning None) hole_overlaps_water is false for every hole and raises
\* nothing: the run is aborted by nothing but the triangulator and writes its
\* output.
C17_NoLakesIsDegradedMode ==
    (prog = "meshes" /\ ~lakes_index) =>
        /\ Prepared =>
              \A hole \in HolesIn(geometry) : ~hole_overlaps_water(hole, lakes_index)
        /\ pc = "aborted" => call.raised
        /\ pc = "done" => written

\* C17 witness: a run without lakes index has written a country whose hole
\* lies in water
C17_Witness ==
    /\ prog = "meshes" /\ ~lakes_index
    /\ pc = "done" /\ written
    /\ \E hole \in HolesIn(geometry) : hole_overlaps_water(hole, TRUE)
    /\ diag.iso \in DOMAIN result

----------------------------------------------------------------------------
(* Claims about filter_polygon_holes and filter_country_holes *)

\* a is b with some of its elements left out
RECURSIVE IsSubseq(_, _)
IsSubseq(a, b) ==
    IF a = <<>> THEN TRUE
    ELSE IF b = <<>> THEN FALSE
    ELSE IF Head(a) = Head(b) THEN IsSubseq(Tail(a), Tail(b))
    ELSE IsSubseq(a, Tail(b))

\* what filter_country_holes returned for the current country
FilterOutput ==
    filter_country_holes(make_valid_geometry(geometry), diag.iso, CentroidKeys, lakes_index)

\* C18: the filter keeps every polygon's exterior ring as it is and only
\* removes holes: the holes it returns are the polygon's holes with some left
\* out, in their order and unaltered; of a MultiPolygon every non-empty member
\* is filtered, each as it would be alone.
C18_FilterKeepsExteriors ==
    (Prepared /\ Filterable(geometry)) =>
        LET members == NonEmptyPolys(geometry)
        IN /\ FilterOutput.type = geometry.type
           /\ Len(FilterOutput.polys) = Len(members)
           /\ \A k \in 1..Len(members) :
                 /\ k <= Len(FilterOutput.polys)
                 /\ FilterOutput.polys[k].exterior = members[k].exterior
                 /\ IsSubseq(FilterOutput.polys[k].interiors, members[k].interiors)
                 /\ FilterOutput.polys[k] =
                        filter_country_holes(Plain("Polygon", <<members[k]>>), diag.iso,
                                             CentroidKeys, lakes_index).polys[1]
           /\ simplify_tolerance <= 0 => cleaned_geom = FilterOutput

\* C18 witness: a MultiPolygon with an empty member was filtered, and of one
\* member's holes some were kept and some removed
C18_Witness ==
    /\ Prepared /\ Filterable(geometry) /\ geometry.type = "MultiPolygon"
    /\ Len(NonEmptyPolys(geometry)) < Len(geometry.polys)
    /\ \E k \in 1..Len(FilterOutput.polys) :
          /\ FilterOutput.polys[k].interiors # <<>>
          /\ Len(FilterOutput.polys[k].interiors) < Len(NonEmptyPolys(geometry)[k].interiors)

\* C19: the diagnostics only observe: the geometry handed to the triangulator
\* is the prepared geometry whether or not its record is computed and kept,
\* a zero initial area gives a record (area_delta_pct 0), and no failure
\* while the diagnostics are computed or written aborts the run.
C19_DiagnosticsAreBestEffort ==
    prog = "meshes" =>
        /\ Prepared =>
              /\ cleaned_geom = PreparedGeometry(diag.iso, geometry, CentroidKeys,
                                                 simplify_tolerance, lakes_index)
              /\ diag.initial_area = 0 => diag.area_delta_pct = 0
        /\ pc = "aborted" => call.raised
        /\ pc # "aborted_write"

\* the shapefile has neither of the ISO code columns
NoIsoColumn == columns \cap {"ISO_A3", "ADM0_A3"} = {}

\* C20: without an ISO code column (no preferred column, no ISO_A3, no
\* ADM0_A3) loading raises before any country is processed: the run ends
\* there, no country is prepared or meshed and no output is written.
C20_SchemaErrorIsFatal ==
    NoIsoColumn =>
        /\ pc \in {"m_load", "g_load", "aborted_load"}
        /\ gdf = <<>> /\ diag.iso = "" /\ result = <<>>
        /\ ~written /\ ~diag_written
        /\ rings = <<>> /\ verts = <<>> /\ faces = <<>> /\ ~created

\* C20 witness: loading a shapefile without ISO code column has raised
C20_Witness ==
    /\ prog = "meshes" /\ NoIsoColumn
    /\ pc = "aborted_load"

----------------------------------------------------------------------------
(* Claims about the projection and the vertex buffers *)

\* every coordinate of the vertex is a value rounded to 6 fractional digits
IsRounded(v) == \A c \in 1..3 : ~v[c].tiny

\* C21: every vertex of every mesh is the projection
\* (r cos(lat) cos(lon), r cos(lat) sin(lon), r sin(lat)) of its planar point
\* with each coordinate rounded to 6 fractional digits, in build_country_mesh
\* (project_to_sphere) as in triangulate_geometry (lonlat_to_xyz).
C21_ProjectionIsRounded ==
    /\ \A k \in 1..Len(country_verts) : IsRounded(country_verts[k])
    /\ \A iso \in DOMAIN result :
          \A k \in 1..Len(result[iso].verts) : IsRounded(result[iso].verts[k])
    /\ \A k \in 1..Len(verts) :
          /\ IsRounded(verts[k])
          /\ \E i \in 1..Len(rings) : \E j \in 1..Len(rings[i].coords) :
                verts[k] = Round6(project_to_sphere(rings[i].coords[j][1],
                                                    rings[i].coords[j][2],
                                                    GLOBE_SPHERE_RADIUS))

\* the rows after the current one that the run has still to process
RowsLeft == {r \in (row + 1)..Len(gdf) : gdf[r] \in iso_filter_set}

\* C22: the entry of a country is made from that country's prepared geometry
\* alone, is written once and is never changed by the processing of another
\* country; the shared inputs (rows and centroid lookup, lakes index, enclave
\* table) are only read; and a country is processed whether or not the
\* countries before it succeed.
C22_CountriesAreIndependent ==
    [][prog = "meshes" =>
          /\ \A iso \in DOMAIN result :
                iso \in DOMAIN result' /\ result'[iso] = result[iso]
          /\ \A iso \in (DOMAIN result') \ (DOMAIN result) :
                /\ iso = diag.iso
                /\ triangulate_geometry(cleaned_geom).tri
                       = Some(result'[iso].verts, result'[iso].faces)
          /\ lakes_index' = lakes_index
          /\ pc # "m_load" => gdf' = gdf
          /\ pc' = "aborted" => RowsLeft' = {}
      ]_vars

\* C23: in triangulate_geometry vert_offset is the number of vertices in
\* country_verts at the start of every iteration; the faces a triangulated
\* polygon adds have their indices in the polygon's own block
\* [vert_offset, vert_offset + n), n its number of vertices; a skipped
\* polygon adds no vertex and no face and leaves vert_offset as it is.
C23_OffsetIsVertexCount ==
    /\ [](vert_offset = Len(country_verts))
    /\ [][(prog = "meshes" /\ pc = "m_tri" /\ pidx' = pidx + 1) =>
             IF call'.verts = <<>> \/ call'.faces = <<>>
             THEN /\ country_verts' = country_verts
                  /\ country_faces' = country_faces
                  /\ vert_offset' = vert_offset
             ELSE /\ country_verts' = country_verts \o call'.verts
                  /\ Len(country_faces') = Len(country_faces) + Len(call'.faces)
                  /\ SubSeq(country_faces', 1, Len(country_faces)) = country_faces
                  /\ \A k \in (Len(country_faces) + 1)..Len(country_faces') :
                        \A c \in 1..3 :
                            /\ country_faces'[k][c] >= vert_offset
                            /\ country_faces'[k][c] < vert_offset + Len(call'.verts)
         ]_vars

\* C23 witness: of a country's two polygons the first was skipped and the
\* second triangulated
C23_Witness ==
    /\ prog = "meshes" /\ pc = "m_tri"
    /\ Len(paths) = 2 /\ pidx = 3
    /\ EarcutOutcome(<<paths[1].exterior>>) = "empty"
    /\ country_faces # <<>>
    /\ vert_offset = Len(paths[2].exterior)

\* the ring has no duplicated closing vertex
NoClosingVertex(ring) == Len(ring) >= 2 => ring[1] # ring[Len(ring)]

\* C24: no loop handed to the triangulator has a duplicated closing vertex:
\* whatever the coordinate list, the ring normalize_ring makes of it, and the
\* ring build_country_mesh extracts from a part, has its first point
\* different from its last when it has 2 points or more.
C24_NoDuplicatedClosingVertex ==
    /\ \A i \in 1..Len(rings) : NoClosingVertex(rings[i].coords)
    /\ \A k \in 1..Len(paths) :
          /\ NoClosingVertex(paths[k].exterior)
          /\ \A h \in 1..Len(paths[k].holes) : NoClosingVertex(paths[k].holes[h])
    /\ \A k \in 1..Len(call.loops) : NoClosingVertex(call.loops[k])
    /\ Prepared =>
          \A k \in 1..Len(geometry.polys) :
              NoClosingVertex(normalize_ring(geometry.polys[k].exterior))

----------------------------------------------------------------------------
(* Claims about hole_overlaps_water *)

\* the areas of all the candidate lakes' intersections with the hole, summed
TotalOverlap(hole) == SumSeq(LakeOverlaps(hole), 1)

\* C25: hole_overlaps_water is true exactly when a lakes index is there, the
\* hole is not empty and has a positive area, and the intersections of all
\* candidate lakes with the hole sum up to HOLE_WATER_OVERLAP_THRESHOLD of
\* the hole's area or more; the return from within the loop gives what the
\* full sum gives, and a hole without area gives false.
C25_WaterOverlapIsRatioTest ==
    (Prepared /\ Filterable(geometry)) =>
        \A hole \in HolesIn(geometry) :
            hole_overlaps_water(hole, lakes_index)
                <=> /\ lakes_index
                    /\ hole # <<>>
                    /\ RingArea(hole) > 0
                    /\ TotalOverlap(hole) * 100
                           >= RingArea(hole) * HOLE_WATER_OVERLAP_THRESHOLD

\* C25 witness: with a lakes index, a hole without area and a hole that lakes
\* cover below the threshold have been through the filter
C25_Witness ==
    /\ Prepared /\ Filterable(geometry) /\ lakes_index
    /\ \E hole \in HolesIn(geometry) : RingArea(hole) = 0
    /\ \E hole \in HolesIn(geometry) :
          /\ TotalOverlap(hole) > 0
          /\ ~hole_overlaps_water(hole, lakes_index)

----------------------------------------------------------------------------
(* Claims about the parent and children links of classify_rings *)

\* how many times ring r occurs in the children list of ring p
TimesChildOf(r, p) ==
    Cardinality({k \in 1..Len(rings[p].children) : rings[p].children[k] = r})

\* C26: after classify_rings on freshly built rings, parent and children form
\* a forest: r is in p.children iff r.parent is p, every ring occurs at most
\* once in all the children lists together, and a parent comes before its
\* child in the descending-area order (parent.area >= child.area), so that no
\* chain of parents comes back to its start.
C26_ParentsAndChildrenFormForest ==
    Classified =>
        /\ \A r, p \in 1..Len(rings) :
               (TimesChildOf(r, p) > 0) <=> (rings[r].parent = p)
        /\ \A r \in 1..Len(rings) :
               SumSeq([p \in 1..Len(rings) |-> TimesChildOf(r, p)], 1) <= 1
        /\ \A r \in 1..Len(rings) :
               rings[r].parent # NoParent =>
                   /\ rings[r].parent \in 1..(r - 1)
                   /\ rings[rings[r].parent].area >= rings[r].area

\* C26 witness: a classified country in which a ring has two children and
\* one of them is enclosed by the other
C26_Witness ==
    /\ Classified
    /\ \E p, a, b \in 1..Len(rings) :
          /\ a # b
          /\ rings[a].parent = p /\ rings[b].parent = p
          /\ Qualifies(rings[a], rings[b])

----------------------------------------------------------------------------
(* Claims about geometries of an unsupported type *)

\* the country prepared last came out as a geometry that is not empty and is
\* neither a Polygon nor a MultiPolygon
Unsupported ==
    /\ Prepared
    /\ ~is_empty(cleaned_geom)
    /\ cleaned_geom.type \notin {"Polygon", "MultiPolygon"}

\* C27: a geometry whose type is neither Polygon nor MultiPolygon is handled
\* without error: filter_country_holes returns it unchanged,
\* count_interior_rings and count_islands report 0, polygon_to_earcut_paths
\* returns no paths, triangulate_geometry returns None, and build_mesh_data
\* leaves the country out of the output and goes on with the next country.
C27_UnsupportedTypeIsSkipped ==
    Unsupported =>
        /\ filter_country_holes(cleaned_geom, diag.iso, CentroidKeys, lakes_index)
               = cleaned_geom
        /\ count_interior_rings(cleaned_geom) = 0 /\ diag.final_holes = 0
        /\ count_islands(cleaned_geom) = 0 /\ diag.island_count = 0
        /\ polygon_to_earcut_paths(cleaned_geom) = <<>> /\ paths = <<>>
        /\ triangulate_geometry(cleaned_geom) = [raised |-> FALSE, tri |-> None]
        /\ diag.iso \notin DOMAIN result
        /\ pc \in {"m_row", "m_diag", "done", "aborted_write"}
        /\ \E r \in 1..(row - 1) : gdf[r] = diag.iso

\* C27 witness: a country whose repair gave a collection, with holes in its
\* polygons, has been skipped, a country before it is in the output and
\* another row is still to come
C27_Witness ==
    /\ Unsupported
    /\ \E k \in 1..Len(cleaned_geom.polys) : cleaned_geom.polys[k].interiors # <<>>
    /\ pc = "m_row" /\ row <= Len(gdf)
    /\ DOMAIN result # {}

====
